---- MODULE Spec2Model ----
(***************************************************************************)
(* Model of src/src/lib.rs: the Client of the impersonating HTTP client,   *)
(* Client::new and Client::request, the module-level request function,     *)
(* the process-wide tokio runtime the calls block on, and the interpreter  *)
(* lock released around the exchange.                                      *)
(***************************************************************************)
EXTENDS Integers, Sequences, FiniteSets, TLC

(***************************************************************************)
(* Option<T>: None is the empty set, Some(x) the singleton {x}.            *)
(***************************************************************************)
None == {}

Some(x) == {x}

IsSome(o) == o # {}

Unwrap(o) == CHOOSE x \in o : TRUE

\* Option::or (lib.rs:260-262): the receiver when it is Some, else the argument.
OptionOr(a, b) == IF IsSome(a) THEN a ELSE b

\* HashMap<String, String>: a function from its keys to its values.
EmptyMap == << >>

Free == "free"

(***************************************************************************)
(* Errors raised to the caller: the Python exception class, the message    *)
(* of the source and, for a file error, the path the message names.        *)
(***************************************************************************)
PyErr(exc, msg, path) == [ok |-> FALSE, exc |-> exc, msg |-> msg, path |-> path]

ErrBothAuth == PyErr("ValueError", "Cannot provide both auth and auth_bearer", "")

ErrHeaderName == PyErr("ValueError", "Invalid header name", "")

ErrHeaderValue == PyErr("ValueError", "Invalid header value", "")

ErrMethod == PyErr("Exception", "Unrecognized HTTP method", "")

ErrReadFile(path) == PyErr("Exception", "Error reading file", path)

ErrRequest == PyErr("Exception", "Error in request", "")

ErrReadBytes == PyErr("Exception", "Error reading response bytes", "")

\* Result::unwrap on an Err (lib.rs:265) panics; pyo3 raises PanicException.
ErrPanic == PyErr("PanicException", "called Result::unwrap on an Err value", "")

(***************************************************************************)
(* The values the calls are made with.                                     *)
(***************************************************************************)
Threads == {"t1", "t2"}

ValidMethods == {"GET", "HEAD", "OPTIONS", "DELETE", "POST", "PUT", "PATCH"}

Methods == ValidMethods \cup {"TRACE"}

\* HeaderName::from_bytes accepts HTTP tokens only: a name with a space is refused.
ValidHeaderName(k) == k # "bad name"

\* HeaderValue::from_str refuses control characters such as a line feed.
ValidHeaderValue(v) == v # "bad\nvalue"

\* tokio::fs::read succeeds on the files that exist and can be read.
ReadablePaths == {"/ok"}

FileContent(path) == <<"bytes of", path>>

\* A Python scalar: its text, and whether it is a str (extract::<String> succeeds).
PyStr(s) == [str |-> TRUE, s |-> s]

PyInt(s) == [str |-> FALSE, s |-> s]

\* A value of a form dictionary: a list of scalars, or one scalar.
PyList(items) == [list |-> TRUE, items |-> items]

PyScalar(x) == [list |-> FALSE, items |-> <<x>>]

(***************************************************************************)
(* py_dict_to_hashmap (lib.rs:32-49): every value becomes a list of        *)
(* strings; the first value (or list item) that is no str is an Err.       *)
(***************************************************************************)
py_dict_to_hashmap(py_dict) ==
    IF \E k \in DOMAIN py_dict :
           \E i \in 1..Len(py_dict[k].items) : ~py_dict[k].items[i].str
    THEN [ok |-> FALSE, map |-> EmptyMap]
    ELSE [ok |-> TRUE,
          map |-> [k \in DOMAIN py_dict |->
                      [i \in 1..Len(py_dict[k].items) |-> py_dict[k].items[i].s]]]

\* The orders in which a HashMap may iterate over a set of keys.
RECURSIVE IterationOrders(_)
IterationOrders(keys) ==
    IF keys = {} THEN {<< >>}
    ELSE UNION {{<<k>> \o rest : rest \in IterationOrders(keys \ {k})} : k \in keys}

\* flat_map of lib.rs:267-269 along one iteration order: the (key, value) pairs.
RECURSIVE FlattenedPairs(_, _)
FlattenedPairs(data_map, order) ==
    IF order = << >> THEN << >>
    ELSE [i \in 1..Len(data_map[Head(order)]) |-> <<Head(order), data_map[Head(order)][i]>>]
         \o FlattenedPairs(data_map, Tail(order))

(***************************************************************************)
(* Request bodies: the encoding and the payload.  A urlencoded string is   *)
(* the sequence of its key=value pairs, a Python str() the dictionary it   *)
(* prints, a multipart form the sequence of its parts.                     *)
(***************************************************************************)
BytesBody(content) == [enc |-> "bytes", payload |-> content]

UrlEncodedBody(pairs) == [enc |-> "urlencoded", payload |-> pairs]

PyStrBody(dict) == [enc |-> "pystr", payload |-> dict]

MultipartBody(parts) == [enc |-> "multipart", payload |-> parts]

\* data_str (lib.rs:264-272): None without data, else the outcomes of the
\* conversion: a panic of unwrap, or one urlencoded string per iteration order.
DataStrOutcomes(data) ==
    IF ~IsSome(data) THEN {[panic |-> FALSE, data_str |-> None]}
    ELSE LET r == py_dict_to_hashmap(Unwrap(data))
         IN IF ~r.ok THEN {[panic |-> TRUE, data_str |-> None]}
            ELSE {[panic |-> FALSE,
                   data_str |-> Some(UrlEncodedBody(FlattenedPairs(r.map, o)))] :
                     o \in IterationOrders(DOMAIN r.map)}

\* json_str (lib.rs:274): the Python str() of the dictionary.
JsonStr(json) == IF IsSome(json) THEN Some(PyStrBody(Unwrap(json))) ELSE None

(***************************************************************************)
(* The request builder of the transport (lib.rs:295-372).  Headers are a   *)
(* map from a name to the sequence of its values: RequestBuilder::header   *)
(* appends a value, RequestBuilder::headers replaces the values of the     *)
(* names it is given.                                                      *)
(***************************************************************************)
\* The match of lib.rs:281-292.
MethodFromStr(method) ==
    IF method \in {"GET", "POST", "HEAD", "OPTIONS", "PUT", "PATCH", "DELETE"}
    THEN Some(method) ELSE None

\* lib.rs:278.
IsPostPutPatch(method) == method = "POST" \/ method = "PUT" \/ method = "PATCH"

\* client.request(method, url), lib.rs:295.
NewRequestBuilder(method, url) ==
    [method |-> method, url |-> url, query |-> None, headers |-> EmptyMap,
     body |-> None, auth |-> None, timeout |-> None]

\* request_builder.header(name, value): one more value for the name.
AppendHeader(rb, name, value) ==
    [rb EXCEPT !.headers =
        IF name \in DOMAIN rb.headers
        THEN [rb.headers EXCEPT ![name] = Append(@, value)]
        ELSE rb.headers @@ (name :> <<value>>)]

\* request_builder.headers(map): the names of the map get the map's value.
ReplaceHeaders(rb, map) ==
    [rb EXCEPT !.headers =
        [n \in DOMAIN rb.headers \cup DOMAIN map |->
            IF n \in DOMAIN map THEN <<map[n]>> ELSE rb.headers[n]]]

\* Params, lib.rs:297-300.
ApplyParams(rb, params) ==
    IF IsSome(params) THEN [rb EXCEPT !.query = Some(Unwrap(params))] ELSE rb

\* The errors the loop of lib.rs:305-314 can end with: the first entry, in the
\* map's iteration order, whose name or value is refused.
HeaderErrors(headers) ==
    {ErrHeaderName : k \in {k \in DOMAIN headers : ~ValidHeaderName(k)}}
    \cup {ErrHeaderValue :
            k \in {k \in DOMAIN headers : ValidHeaderName(k) /\ ~ValidHeaderValue(headers[k])}}

\* Headers, lib.rs:302-316, for a map whose entries are all valid.
ApplyHeaders(rb, headers) ==
    IF IsSome(headers) THEN ReplaceHeaders(rb, Unwrap(headers)) ELSE rb

\* Content, Data, Json: lib.rs:320-335.
ApplyContent(rb, content) ==
    IF IsSome(content) THEN [rb EXCEPT !.body = Some(BytesBody(Unwrap(content)))] ELSE rb

ApplyData(rb, data_str) ==
    IF IsSome(data_str)
    THEN [AppendHeader(rb, "Content-Type", "application/x-www-form-urlencoded")
             EXCEPT !.body = data_str]
    ELSE rb

ApplyJson(rb, json_str) ==
    IF IsSome(json_str)
    THEN [AppendHeader(rb, "Content-Type", "application/json") EXCEPT !.body = json_str]
    ELSE rb

\* request_builder.multipart(form), lib.rs:349.
ApplyMultipart(rb, form) ==
    [AppendHeader(rb, "Content-Type", "multipart/form-data") EXCEPT
        !.body = Some(MultipartBody(form))]

\* Auth, lib.rs:353-367: the builder with the mechanism attached, or the error.
BasicAuth(a) == [scheme |-> "Basic", user |-> a.user, pass |-> a.pass, token |-> ""]

BearerAuth(token) == [scheme |-> "Bearer", user |-> "", pass |-> None, token |-> token]

\* A match without the (Some, Some) arm: both mechanisms fall to the default arm.
AuthConflictMissed(auth, auth_bearer) == FALSE

AuthConflict(auth, auth_bearer) == IsSome(auth) /\ IsSome(auth_bearer)

ApplyAuth(rb, auth, auth_bearer) ==
    IF IsSome(auth) /\ ~IsSome(auth_bearer)
        THEN [rb EXCEPT !.auth = Some(BasicAuth(Unwrap(auth)))]
    ELSE IF ~IsSome(auth) /\ IsSome(auth_bearer)
        THEN [rb EXCEPT !.auth = Some(BearerAuth(Unwrap(auth_bearer)))]
    ELSE rb

\* Timeout, lib.rs:369-372.
ApplyTimeout(rb, timeout) ==
    IF IsSome(timeout) THEN [rb EXCEPT !.timeout = timeout] ELSE rb

(***************************************************************************)
(* The transport (reqwest_impersonate::Client).  The handle keeps the      *)
(* default headers it was built with (lib.rs:148) and, when it sends a     *)
(* request, inserts every default header whose name the request has no     *)
(* value for; the values the request carries are left as they are.         *)
(***************************************************************************)
\* A transport that drops its defaults as soon as the request has headers of its own.
TransportRequestReplacing(handle, rb) ==
    IF DOMAIN rb.headers # {} THEN rb
    ELSE [rb EXCEPT !.headers =
             [n \in DOMAIN handle.default_headers |-> <<handle.default_headers[n]>>]]

TransportRequest(handle, rb) ==
    [rb EXCEPT !.headers =
        [n \in DOMAIN rb.headers \cup DOMAIN handle.default_headers |->
            IF n \in DOMAIN rb.headers THEN rb.headers[n]
            ELSE <<handle.default_headers[n]>>]]

(***************************************************************************)
(* Text.  A header value is the sequence of its bytes, a str the sequence  *)
(* of its characters, each written as a string of one character; a byte    *)
(* that is no ASCII character is written as its code, "0xE9".              *)
(***************************************************************************)
Lower == <<"a", "b", "c", "d", "e", "f", "g", "h", "i", "j", "k", "l", "m",
           "n", "o", "p", "q", "r", "s", "t", "u", "v", "w", "x", "y", "z">>

Upper == <<"A", "B", "C", "D", "E", "F", "G", "H", "I", "J", "K", "L", "M",
           "N", "O", "P", "Q", "R", "S", "T", "U", "V", "W", "X", "Y", "Z">>

\* The bytes HeaderValue::to_str accepts: the visible ASCII characters, the
\* space and the tab.
VisibleAscii ==
    {Lower[i] : i \in 1..26} \cup {Upper[i] : i \in 1..26}
    \cup {"0", "1", "2", "3", "4", "5", "6", "7", "8", "9"}
    \cup {" ", "\t", "/", ";", "=", "-", "_", ".", ",", "+", "*", "\""}

\* HeaderValue::to_str, lib.rs:388: the text, or None for a value with a byte
\* outside the visible ASCII.
ToStr(value) ==
    IF \A i \in 1..Len(value) : value[i] \in VisibleAscii THEN Some(value) ELSE None

\* str::split(sep): the pieces between the separators, at least one.
RECURSIVE Split(_, _)
Split(s, sep) ==
    IF \A i \in 1..Len(s) : s[i] # sep THEN <<s>>
    ELSE LET at == CHOOSE i \in 1..Len(s) :
                      s[i] = sep /\ \A j \in 1..(i - 1) : s[j] # sep
         IN <<SubSeq(s, 1, at - 1)>> \o Split(SubSeq(s, at + 1, Len(s)), sep)

\* str::splitn(2, sep): the piece before the first separator and, when there
\* is a separator, all that follows it.
SplitN2(s, sep) ==
    IF \A i \in 1..Len(s) : s[i] # sep THEN <<s>>
    ELSE LET at == CHOOSE i \in 1..Len(s) :
                      s[i] = sep /\ \A j \in 1..(i - 1) : s[j] # sep
         IN <<SubSeq(s, 1, at - 1), SubSeq(s, at + 1, Len(s))>>

IsWhitespace(c) == c \in {" ", "\t"}

\* str::trim: without the white space at its start and at its end.
RECURSIVE Trim(_)
Trim(s) ==
    IF s = << >> THEN s
    ELSE IF IsWhitespace(s[1]) THEN Trim(Tail(s))
    ELSE IF IsWhitespace(s[Len(s)]) THEN Trim(SubSeq(s, 1, Len(s) - 1))
    ELSE s

\* u8::to_ascii_lowercase.
ToAsciiLowercase(c) ==
    IF \E i \in 1..26 : Upper[i] = c
    THEN Lower[CHOOSE i \in 1..26 : Upper[i] = c]
    ELSE c

\* A comparison that tells the cases apart.
EqExact(a, b) == a = b

\* str::eq_ignore_ascii_case, lib.rs:394.
EqIgnoreAsciiCase(a, b) ==
    /\ Len(a) = Len(b)
    /\ \A i \in 1..Len(a) : ToAsciiLowercase(a[i]) = ToAsciiLowercase(b[i])

Charset == <<"c", "h", "a", "r", "s", "e", "t">>

Utf8 == <<"U", "T", "F", "-", "8">>

\* find_map of lib.rs:390-399 over the pieces of the split: the trimmed value
\* of the first piece that has an '=' and whose trimmed key is "charset" in
\* any case.
RECURSIVE FindCharset(_)
FindCharset(params) ==
    IF params = << >> THEN None
    ELSE LET kv == SplitN2(Head(params), "=")
         IN IF Len(kv) = 2 /\ EqIgnoreAsciiCase(Trim(kv[1]), Charset)
            THEN Some(Trim(kv[2]))
            ELSE FindCharset(Tail(params))

\* Encoding, lib.rs:385-401.
Encoding(resp_headers) ==
    IF "content-type" \notin DOMAIN resp_headers THEN Utf8
    ELSE LET ct == ToStr(resp_headers["content-type"])
         IN IF ~IsSome(ct) THEN Utf8
            ELSE LET found == FindCharset(Split(Unwrap(ct), ";"))
                 IN IF IsSome(found) THEN Unwrap(found) ELSE Utf8

\* The header map of lib.rs:402-406: a value that is no text becomes "".
ResponseHeaders(resp_headers) ==
    [n \in DOMAIN resp_headers |->
        IF IsSome(ToStr(resp_headers[n])) THEN resp_headers[n] ELSE << >>]

\* The response the transport gives to a request, with the Content-Type the
\* server chose: the request's URL and the body the server has for it.
RawResponse(req, content_type) ==
    [status |-> 200, url |-> req.url,
     headers |-> IF IsSome(content_type)
                 THEN ("content-type" :> Unwrap(content_type)) ELSE EmptyMap,
     cookies |-> ("sid" :> "1"),
     body |-> <<"body of", req.url>>]

\* The tuple the future ends with, lib.rs:380-415.
FutureOk(raw) ==
    [ok |-> TRUE, buf |-> raw.body, cookies |-> raw.cookies,
     encoding |-> Encoding(raw.headers),
     headers |-> ResponseHeaders(raw.headers),
     status_code |-> raw.status, url |-> raw.url]

(***************************************************************************)
(* Client::new (lib.rs:108-218): the client, or the error.  Of the options *)
(* the client keeps auth, auth_bearer and params; the others, the default  *)
(* headers among them, configure the transport handle.                     *)
(***************************************************************************)
ErrProxy == PyErr("ValueError", "Invalid proxy URL", "")

ErrImpersonate == PyErr("ValueError", "Invalid impersonate param", "")

ErrHttpVersions == PyErr("ValueError", "Both http1 and http2 cannot be true", "")

\* reqwest_impersonate::Proxy::all accepts the URLs it can parse.
ValidProxy(proxy_url) == proxy_url # "not a url"

\* Impersonate::from_str knows the profiles of the library.
KnownProfiles == {"chrome_123"}

\* The headers of an impersonation profile, which take the place of the
\* headers option (lib.rs:74).
ProfileHeaders(profile) == ("User-Agent" :> profile)

\* max_redirects.unwrap_or(20), lib.rs:182.
DefaultMaxRedirects == 20

\* Option<bool>::unwrap_or.
UnwrapOr(o, default) == IF IsSome(o) THEN Unwrap(o) ELSE default

\* The handle client_builder.build() gives for valid options, lib.rs:131-210.
BuildTransport(o) ==
    [default_headers |->
        IF IsSome(o.impersonate) THEN ProfileHeaders(Unwrap(o.impersonate))
        ELSE IF IsSome(o.headers) THEN Unwrap(o.headers) ELSE EmptyMap,
     cookie_store |-> UnwrapOr(o.cookie_store, TRUE),
     referer |-> UnwrapOr(o.referer, TRUE),
     proxy |-> o.proxy,
     timeout |-> o.timeout,
     impersonate |-> o.impersonate,
     redirect |-> IF UnwrapOr(o.follow_redirects, TRUE)
                  THEN Some(UnwrapOr(o.max_redirects, DefaultMaxRedirects))
                  ELSE None,
     accept_invalid_certs |-> ~UnwrapOr(o.verify, FALSE),
     http |-> IF o.http1 = Some(TRUE) THEN "http1_only"
              ELSE IF o.http2 = Some(TRUE) THEN "http2_prior_knowledge"
              ELSE "auto"]

\* A match without the (Some(true), Some(true)) arm: http1 wins.
HttpVersionConflictMissed(http1, http2) == FALSE

\* The first arm of the match of lib.rs:196-201.
HttpVersionConflict(http1, http2) == http1 = Some(TRUE) /\ http2 = Some(TRUE)

\* The results Client::new can return for the options o.
ClientNew(o) ==
    IF IsSome(o.auth) /\ IsSome(o.auth_bearer) THEN {ErrBothAuth}
    ELSE IF IsSome(o.headers) /\ HeaderErrors(Unwrap(o.headers)) # {}
        THEN HeaderErrors(Unwrap(o.headers))
    ELSE IF IsSome(o.proxy) /\ ~ValidProxy(Unwrap(o.proxy)) THEN {ErrProxy}
    ELSE IF IsSome(o.impersonate) /\ Unwrap(o.impersonate) \notin KnownProfiles
        THEN {ErrImpersonate}
    ELSE IF HttpVersionConflict(o.http1, o.http2) THEN {ErrHttpVersions}
    ELSE {[ok |-> TRUE, client |-> BuildTransport(o), auth |-> o.auth,
           auth_bearer |-> o.auth_bearer, params |-> o.params]}

(***************************************************************************)
(* The state.                                                              *)
(***************************************************************************)
VARIABLES
    client,     \* the Client built by Client::new: None before, Some(client) after
    new_args,   \* the options Client::new was called with: None before the call
    new_result, \* what Client::new returned: None before the call
    RUNTIME,    \* the OnceLock of runtime(): its state, the runtime it holds and
                \* the number of runtimes the process has built
    core,       \* the thread that drives the runtime (holds its core), or Free
    gil,        \* the thread that holds the interpreter lock, or Free
    pc,         \* where each thread is in Client::request
    args,       \* the arguments of the thread's call
    local,      \* the locals of the call: the values moved into the future
    out,        \* the output of the thread's future, once it is ready
    wire,       \* the request the transport has been given by the call's send
    sends,      \* how many times the call has invoked the transport's send
    reads,      \* the paths the call has asked tokio::fs::read to read
    result      \* what the call returned to its caller

vars == <<client, new_args, new_result, RUNTIME, core, gil, pc, args, local, out, wire,
          sends, reads, result>>

process_vars == <<client, new_args, new_result>>

NoArgs ==
    [method |-> "", url |-> "", params |-> None, headers |-> None, content |-> None,
     data |-> None, json |-> None, files |-> None, auth |-> None,
     auth_bearer |-> None, timeout |-> None]

NoLocals ==
    [client |-> None, auth |-> None, auth_bearer |-> None, params |-> None,
     data_str |-> None, json_str |-> None,
     runtime |-> None,
     rb |-> NewRequestBuilder("", ""), form |-> << >>, pending |-> {}, raw |-> None]

Init ==
    /\ client = None
    /\ new_args = None
    /\ new_result = None
    /\ RUNTIME = [once |-> "incomplete", value |-> None, built |-> 0]
    /\ core = Free
    /\ gil = Free
    /\ pc = [t \in Threads |-> "idle"]
    /\ args = [t \in Threads |-> NoArgs]
    /\ local = [t \in Threads |-> NoLocals]
    /\ out = [t \in Threads |-> None]
    /\ wire = [t \in Threads |-> None]
    /\ sends = [t \in Threads |-> 0]
    /\ reads = [t \in Threads |-> {}]
    /\ result = [t \in Threads |-> None]

(***************************************************************************)
(* Client::new, called once by the program (lib.rs:108-218).               *)
(***************************************************************************)
New(options) ==
    /\ new_result = None
    /\ \E o \in options : \E r \in ClientNew(o) :
          /\ new_args' = Some(o)
          /\ new_result' = Some(r)
          /\ client' = IF r.ok THEN Some([client |-> r.client, auth |-> r.auth,
                                          auth_bearer |-> r.auth_bearer,
                                          params |-> r.params])
                       ELSE None
    /\ UNCHANGED <<RUNTIME, core, gil, pc, args, local, out, wire, sends, reads, result>>

(***************************************************************************)
(* Client::request, lib.rs:244-450.                                        *)
(***************************************************************************)
\* A resolution that adds the default's entries to the call's map.
ResolveParamsMerged(params, default) ==
    IF IsSome(params) /\ IsSome(default) THEN Some(Unwrap(params) @@ Unwrap(default))
    ELSE OptionOr(params, default)

\* params.or(self.params.clone()), lib.rs:262.
ResolveParams(params, default) == OptionOr(params, default)

\* auth.or(self.auth.clone()) and auth_bearer.or(self.auth_bearer.clone()),
\* lib.rs:260-261.
ResolveAuth(auth, default) == OptionOr(auth, default)

\* &self: the request borrows the client and leaves it as it is.
ClientAfterTake(c) == [c EXCEPT !.auth = None, !.auth_bearer = None, !.params = None]

ClientAfterRequest(c) == c

\* lib.rs:259-274, run with the client c by a thread that holds the interpreter
\* lock: the locals of the call, or the panic of the unwrap of lib.rs:265.
Call(t, c, calls) ==
    /\ pc[t] = "idle"
    /\ gil = Free
    /\ gil' = t
    /\ \E a \in calls : \E d \in DataStrOutcomes(a.data) :
          /\ args' = [args EXCEPT ![t] = a]
          /\
             IF d.panic
             THEN /\ pc' = [pc EXCEPT ![t] = "returned"]
                  /\ result' = [result EXCEPT ![t] = Some(ErrPanic)]
                  /\ local' = local
             ELSE /\ pc' = [pc EXCEPT ![t] = "prepared"]
                  /\ result' = result
                  /\ local' = [local EXCEPT ![t] =
                       [NoLocals EXCEPT
                           !.client = Some(c.client),
                           !.auth = ResolveAuth(a.auth, c.auth),
                           !.auth_bearer = ResolveAuth(a.auth_bearer, c.auth_bearer),
                           !.params = ResolveParams(a.params, c.params),
                           !.data_str = d.data_str,
                           !.json_str = JsonStr(a.json)]]
    /\ UNCHANGED <<RUNTIME, core, out, wire, sends, reads>>

\* client.request(..) on the client of the program.
Request(t, calls) ==
    /\ IsSome(client)
    /\ Call(t, Unwrap(client), calls)
    /\ client' = Some(ClientAfterRequest(Unwrap(client)))
    /\ UNCHANGED <<new_args, new_result>>

\* The options of the client of a module-level function, lib.rs:659-674.
OneShotOptions(impersonate) ==
    [auth |-> None, auth_bearer |-> None, params |-> None, headers |-> None,
     cookie_store |-> None, referer |-> None, proxy |-> None, timeout |-> None,
     impersonate |-> impersonate, follow_redirects |-> None, max_redirects |-> None,
     verify |-> None, http1 |-> None, http2 |-> None]

\* The module-level request (lib.rs:644-689): a client of its own, built for
\* this call, and the call made with it; the error of Client::new is the result.
OneShot(t, calls, profiles) ==
    /\ pc[t] = "idle"
    /\ gil = Free
    /\ \E impersonate \in profiles : \E r \in ClientNew(OneShotOptions(impersonate)) :
          IF r.ok
          THEN Call(t, [client |-> r.client, auth |-> r.auth,
                        auth_bearer |-> r.auth_bearer, params |-> r.params], calls)
          ELSE /\ gil' = t
               /\ pc' = [pc EXCEPT ![t] = "returned"]
               /\ result' = [result EXCEPT ![t] = Some(r)]
               /\ \E a \in calls : args' = [args EXCEPT ![t] = a]
               /\ UNCHANGED <<RUNTIME, core, local, out, wire, sends, reads>>
    /\ UNCHANGED process_vars

\* A lazy cell without the lock of its Once: every thread that finds no value
\* runs the closure.
InitUnlocked(once) == once # "complete"

\* Once::call_once of OnceLock::get_or_init: the thread that finds the cell
\* incomplete runs the closure; a thread that finds it running waits.
InitOnce(once) == once = "incomplete"

\* py.allow_threads releases the interpreter lock.
LockKept(holder) == holder

LockReleased(holder) == Free

\* lib.rs:420, py.allow_threads(|| runtime()...): the lock is released and the
\* thread calls runtime().
AllowThreads(t) ==
    /\ pc[t] = "prepared"
    /\ gil' = LockReleased(gil)
    /\ pc' = [pc EXCEPT ![t] = "runtime"]
    /\ UNCHANGED <<process_vars, RUNTIME, core, args, local, out, wire, sends, reads,
                   result>>

\* runtime(), lib.rs:21-29: RUNTIME.get_or_init gives the runtime the cell
\* holds; the thread that finds the cell incomplete starts to build one.
GetOrInit(t) ==
    /\ pc[t] = "runtime"
    /\ IF RUNTIME.once = "complete"
       THEN /\ pc' = [pc EXCEPT ![t] = "block_on"]
            /\ local' = [local EXCEPT ![t].runtime = RUNTIME.value]
            /\ RUNTIME' = RUNTIME
       ELSE /\ InitOnce(RUNTIME.once)
            /\ pc' = [pc EXCEPT ![t] = "init"]
            /\ RUNTIME' = [RUNTIME EXCEPT !.once = "running"]
            /\ local' = local
    /\ UNCHANGED <<process_vars, core, gil, args, out, wire, sends, reads, result>>

\* The closure of lib.rs:23-28 ends: the runtime it built is the value of the
\* cell, and the thread that built it gets it.
BuildRuntime(t) ==
    /\ pc[t] = "init"
    /\ RUNTIME' = [once |-> "complete", value |-> Some(RUNTIME.built + 1),
                   built |-> RUNTIME.built + 1]
    /\ local' = [local EXCEPT ![t].runtime = Some(RUNTIME.built + 1)]
    /\ pc' = [pc EXCEPT ![t] = "block_on"]
    /\ UNCHANGED <<process_vars, core, gil, args, out, wire, sends, reads, result>>

InBlockOn == {"block_on", "files", "send", "drain"}

\* The runtime makes progress while a thread drives it: the thread that has
\* its core and is in block_on.
Driven == core # Free /\ pc[core] \in InBlockOn \cup {"ready"}

\* Runtime::block_on on the current-thread runtime: a thread whose future is
\* pending takes the core when no thread has it, and then drives the runtime.
TakeCore(t) ==
    /\ pc[t] \in InBlockOn
    /\ core = Free
    /\ core' = t
    /\ UNCHANGED <<process_vars, RUNTIME, gil, pc, args, local, out, wire, sends,
                   reads, result>>

\* The future ends: its output is kept for the thread that blocks on it.
Ready(t, o) ==
    /\ pc' = [pc EXCEPT ![t] = "ready"]
    /\ out' = [out EXCEPT ![t] = Some(o)]
    /\ UNCHANGED <<wire, sends>>

\* request_builder.send(), lib.rs:375: the transport is given the request.
Send(t, rb) ==
    /\ pc' = [pc EXCEPT ![t] = "send"]
    /\ wire' = [wire EXCEPT ![t] = Some(TransportRequest(Unwrap(local[t].client), rb))]
    /\ sends' = [sends EXCEPT ![t] = @ + 1]
    /\ out' = out

\* Auth, Timeout and send, lib.rs:353-377, for the builder the body left.
AuthTimeoutSend(t, rb) ==
    IF AuthConflict(local[t].auth, local[t].auth_bearer)
    THEN Ready(t, ErrBothAuth)
    ELSE Send(t, ApplyTimeout(ApplyAuth(rb, local[t].auth, local[t].auth_bearer),
                              args[t].timeout))

\* The first poll of the future, lib.rs:277-340: the method, the builder, the
\* params, the headers and the content, data and json bodies; then the first
\* file read is awaited, or the auth is attached and the request sent.
Poll(t) ==
    /\ pc[t] = "block_on"
    /\ Driven
    /\ LET a == args[t]
           l == local[t]
           method == MethodFromStr(a.method)
           rb1 == ApplyParams(NewRequestBuilder(Unwrap(method), a.url), l.params)
           rb2 == ApplyHeaders(rb1, a.headers)
           rb3 == ApplyJson(ApplyData(ApplyContent(rb2, a.content), l.data_str),
                            l.json_str)
       IN IF ~IsSome(method)
          THEN Ready(t, ErrMethod) /\ local' = local
          ELSE IF IsSome(a.headers) /\ HeaderErrors(Unwrap(a.headers)) # {}
          THEN /\ \E e \in HeaderErrors(Unwrap(a.headers)) : Ready(t, e)
               /\ local' = local
          ELSE IF ~IsPostPutPatch(a.method)
          THEN AuthTimeoutSend(t, rb2) /\ local' = local
          ELSE IF ~IsSome(a.files)
          THEN AuthTimeoutSend(t, rb3) /\ local' = local
          ELSE IF DOMAIN Unwrap(a.files) = {}
          THEN AuthTimeoutSend(t, ApplyMultipart(rb3, << >>)) /\ local' = local
          ELSE /\ pc' = [pc EXCEPT ![t] = "files"]
               /\ local' = [local EXCEPT ![t].rb = rb3,
                                         ![t].pending = DOMAIN Unwrap(a.files)]
               /\ UNCHANGED <<out, wire, sends>>
    /\ UNCHANGED <<process_vars, RUNTIME, core, gil, args, reads, result>>

\* A read whose failure is swallowed: the part is empty.
ReadLenient(path) == [ok |-> TRUE, content |-> FileContent(path)]

\* tokio::fs::read(&path).await.map_err(..), lib.rs:340-345.
ReadFile(path) ==
    IF path \in ReadablePaths
    THEN [ok |-> TRUE, content |-> FileContent(path)]
    ELSE [ok |-> FALSE, content |-> << >>]

\* One turn of the loop of lib.rs:339-348: tokio::fs::read of the next entry of
\* the map ends; after the last entry the form is attached (lib.rs:349).
FileRead(t) ==
    /\ pc[t] = "files"
    /\ Driven
    /\ \E field \in local[t].pending :
          LET path == Unwrap(args[t].files)[field]
              read == ReadFile(path)
              form == Append(local[t].form, [field |-> field, part |-> read.content])
              rest == local[t].pending \ {field}
          IN /\ reads' = [reads EXCEPT ![t] = @ \cup {path}]
             /\ IF ~read.ok
                THEN Ready(t, ErrReadFile(path)) /\ local' = local
                ELSE IF rest = {}
                THEN /\ AuthTimeoutSend(t, ApplyMultipart(local[t].rb, form))
                     /\ local' = [local EXCEPT ![t].form = form, ![t].pending = rest]
                ELSE /\ local' = [local EXCEPT ![t].form = form, ![t].pending = rest]
                     /\ UNCHANGED <<pc, out, wire, sends>>
    /\ UNCHANGED <<process_vars, RUNTIME, core, gil, args, result>>

\* The transport answers the request it was given: the response head arrives and
\* lib.rs:380-408 take the cookies, the encoding, the headers, the status, the URL.
Respond(t, content_types) ==
    /\ pc[t] = "send"
    /\ Driven
    /\ \E content_type \in content_types :
          local' = [local EXCEPT ![t].raw =
                       Some(RawResponse(Unwrap(wire[t]), content_type))]
    /\ pc' = [pc EXCEPT ![t] = "drain"]
    /\ UNCHANGED <<process_vars, RUNTIME, core, gil, args, out, wire, sends, reads, result>>

\* A send that fails and is tried again.
SendFailRetry(t) ==
    /\ pc[t] = "send"
    /\ Driven
    /\ IF sends[t] < 2
       THEN Send(t, local[t].rb)
       ELSE Ready(t, ErrRequest)
    /\ UNCHANGED <<process_vars, RUNTIME, core, gil, args, local, reads, result>>

\* The send fails (connection, TLS, timeout, redirects): lib.rs:375-377.
SendFail(t) ==
    /\ pc[t] = "send"
    /\ Driven
    /\ Ready(t, ErrRequest)
    /\ UNCHANGED <<process_vars, RUNTIME, core, gil, args, local, reads, result>>

\* resp.bytes() ends with the body, lib.rs:409-415.
DrainOk(t) ==
    /\ pc[t] = "drain"
    /\ Driven
    /\ Ready(t, FutureOk(Unwrap(local[t].raw)))
    /\ UNCHANGED <<process_vars, RUNTIME, core, gil, args, local, reads, result>>

\* resp.bytes() fails, lib.rs:409-414.
DrainFail(t) ==
    /\ pc[t] = "drain"
    /\ Driven
    /\ Ready(t, ErrReadBytes)
    /\ UNCHANGED <<process_vars, RUNTIME, core, gil, args, local, reads, result>>

\* block_on returns to a thread as soon as the thread's own future is ready.
FutureReady(t) == pc[t] = "ready"

\* A block_on that hands out the output of whichever future is ready.
AnyOutput(t) == out[CHOOSE u \in Threads : IsSome(out[u])]

\* block_on gives a thread the output of the future the thread passed to it.
BlockOnOutput(t) == out[t]

\* A block_on that returns with the core still taken.
CoreKept(holder, t) == holder

\* The thread that drove the runtime puts the core back when its block_on ends.
CoreReleased(holder, t) == IF holder = t THEN Free ELSE holder

\* runtime().block_on(future) returns, lib.rs:420: a thread that drove the
\* runtime gives the core up, for a thread that still waits to take.
BlockOnReturn(t) ==
    /\ FutureReady(t)
    /\ pc' = [pc EXCEPT ![t] = "reacquire"]
    /\ out' = [out EXCEPT ![t] = BlockOnOutput(t)]
    /\ core' = CoreReleased(core, t)
    /\ UNCHANGED <<process_vars, RUNTIME, gil, args, local, wire, sends, reads, result>>

\* The Response of lib.rs:426-449, or the error of lib.rs:421-424.
PyResult(o) ==
    IF o.ok
    THEN [ok |-> TRUE, content |-> o.buf, cookies |-> o.cookies, encoding |-> o.encoding,
          headers |-> o.headers, status_code |-> o.status_code, url |-> o.url]
    ELSE o

\* allow_threads ends: the thread takes the interpreter lock again and the call
\* returns the Response or raises the error, lib.rs:420-450.
Return(t) ==
    /\ pc[t] = "reacquire"
    /\ gil = Free
    /\ gil' = t
    /\ pc' = [pc EXCEPT ![t] = "returned"]
    /\ result' = [result EXCEPT ![t] = Some(PyResult(Unwrap(out[t])))]
    /\ UNCHANGED <<process_vars, RUNTIME, core, args, local, out, wire, sends, reads>>

\* The caller has its result and goes on; the thread gives the lock up before
\* its next call.
Done(t) ==
    /\ pc[t] = "returned"
    /\ gil' = Free
    /\ pc' = [pc EXCEPT ![t] = "idle"]
    /\ args' = [args EXCEPT ![t] = NoArgs]
    /\ local' = [local EXCEPT ![t] = NoLocals]
    /\ out' = [out EXCEPT ![t] = None]
    /\ wire' = [wire EXCEPT ![t] = None]
    /\ sends' = [sends EXCEPT ![t] = 0]
    /\ reads' = [reads EXCEPT ![t] = {}]
    /\ result' = [result EXCEPT ![t] = None]
    /\ UNCHANGED <<process_vars, RUNTIME, core>>

(***************************************************************************)
(* The options and the arguments the program is run with.                  *)
(***************************************************************************)
DefaultAuths == {None, Some([user |-> "cu", pass |-> None])}

DefaultBearers == {None, Some("ctok")}

DefaultParams == {None, Some("p" :> "1")}

DefaultHeaders == {None, Some("A" :> "1"), Some("bad name" :> "1")}

CallParams == {None, Some(EmptyMap), Some("q" :> "2")}

CallHeaders == {None, Some("B" :> "2"), Some("A" :> "9"), Some("bad name" :> "2")}

Contents == {None, Some("raw")}

Datas == {None,
          Some("k" :> PyList(<<PyStr("v1"), PyStr("v2")>>)),
          Some("k" :> PyScalar(PyInt("1")))}

Jsons == {None, Some("a" :> "1")}

Files == {None, Some("f" :> "/ok"), Some("f" :> "/missing"),
          Some(("f" :> "/ok") @@ ("g" :> "/missing"))}

Auths == {None, Some([user |-> "u", pass |-> Some("pw")])}

Bearers == {None, Some("tok")}

\* Content-Type values of responses.
TextHtmlLatin1 ==
    <<"t", "e", "x", "t", "/", "h", "t", "m", "l", ";", " ", "c", "h", "a",
      "r", "s", "e", "t", "=", "I", "S", "O", "-", "8", "8", "5", "9", "-",
      "1">>

TextHtml ==
    <<"t", "e", "x", "t", "/", "h", "t", "m", "l">>

UpperCaseKey ==
    <<"t", "e", "x", "t", "/", "h", "t", "m", "l", ";", "C", "H", "A", "R",
      "S", "E", "T", " ", "=", " ", "b", "i", "g", "5">>

TwoCharsets ==
    <<"a", "/", "b", ";", "c", "h", "a", "r", "s", "e", "t", "=", "x", ";",
      "c", "h", "a", "r", "s", "e", "t", "=", "y">>

NotText ==
    <<"a", "/", "b", ";", "c", "h", "a", "r", "s", "e", "t", "=", "x",
      "0xE9">>

KeyOnly ==
    <<"a", "/", "b", ";", "c", "h", "a", "r", "s", "e", "t">>

OtherKey ==
    <<"a", "/", "b", ";", "x", "c", "h", "a", "r", "s", "e", "t", "=", "z">>

EmptyValue ==
    <<"a", "/", "b", ";", "c", "h", "a", "r", "s", "e", "t", "=">>

ContentTypes == {None, Some(TextHtmlLatin1)}

\* The Content-Type values of the servers of the program that reads charsets.
ResponseContentTypes ==
    {None, Some(TextHtmlLatin1), Some(TextHtml), Some(UpperCaseKey), Some(TwoCharsets),
     Some(NotText), Some(KeyOnly), Some(OtherKey), Some(EmptyValue)}

\* The options of the client of the sequential program; the options that only
\* configure the transport are left at their defaults.
ClientOptions ==
    [auth : DefaultAuths, auth_bearer : DefaultBearers, params : DefaultParams,
     headers : DefaultHeaders, cookie_store : {None}, referer : {None},
     proxy : {None}, timeout : {None}, impersonate : {None},
     follow_redirects : {None}, max_redirects : {None}, verify : {None},
     http1 : {None}, http2 : {None}]

\* The options of the client of the threaded program.
ThreadClientOptions ==
    [auth : {None}, auth_bearer : {None}, params : {None},
     headers : {None, Some("A" :> "1")}, cookie_store : {None}, referer : {None},
     proxy : {None}, timeout : {None}, impersonate : {None},
     follow_redirects : {None}, max_redirects : {None}, verify : {None},
     http1 : {None}, http2 : {None}]

\* The calls of the sequential program: one thread, every combination.
CallArgs ==
    [method : Methods, url : {"/u"}, params : CallParams, headers : CallHeaders,
     content : Contents, data : Datas, json : Jsons, files : Files, auth : Auths,
     auth_bearer : Bearers, timeout : {None}]

\* The calls of the threaded program: two threads, two endpoints.
ThreadCallArgs ==
    [method : {"GET", "POST"}, url : {"/fast", "/slow"}, params : {None},
     headers : {None}, content : {None},
     data : {None, Some("k" :> PyScalar(PyInt("1")))}, json : {None},
     files : {None, Some("f" :> "/ok"), Some("f" :> "/missing")}, auth : {None},
     auth_bearer : {None}, timeout : {None, Some(30)}]

\* Plain calls: with and without a file to upload.
PlainCallArgs ==
    [method : {"GET", "POST"}, url : {"/u"}, params : {None}, headers : {None},
     content : {None}, data : {None}, json : {None}, files : {None, Some("f" :> "/ok")},
     auth : {None}, auth_bearer : {None}, timeout : {None}]

ThreadNext(t, calls, content_types) ==
    \/ Request(t, calls)
    \/ AllowThreads(t)
    \/ GetOrInit(t)
    \/ BuildRuntime(t)
    \/ TakeCore(t)
    \/ Poll(t)
    \/ FileRead(t)
    \/ Respond(t, content_types)
    \/ SendFail(t)
    \/ DrainOk(t)
    \/ DrainFail(t)
    \/ BlockOnReturn(t)
    \/ Return(t)
    \/ Done(t)

\* The sequential program: one client, built with any of the options, and one
\* thread that makes call after call.
Next ==
    \/ New(ClientOptions)
    \/ ThreadNext("t1", CallArgs, ContentTypes)

Spec == Init /\ [][Next]_vars

\* The threaded program: one client and two threads that call it concurrently.
NextThreads ==
    \/ New(ThreadClientOptions)
    \/ \E t \in Threads : ThreadNext(t, ThreadCallArgs, {None})

SpecThreads == Init /\ [][NextThreads]_vars

\* The process: a client that two threads call, and the module-level function
\* that the threads call as well, with a profile or without.
Profiles == {None, Some("chrome_123"), Some("netscape_4")}

NextProcess ==
    \/ New(ThreadClientOptions)
    \/ \E t \in Threads : ThreadNext(t, PlainCallArgs, {None})
    \/ \E t \in Threads : OneShot(t, PlainCallArgs, Profiles)

SpecProcess == Init /\ [][NextProcess]_vars

\* The steps of a thread inside allow_threads: they wait for no caller.
Progress(t) ==
    \/ AllowThreads(t)
    \/ GetOrInit(t)
    \/ BuildRuntime(t)
    \/ TakeCore(t)
    \/ Poll(t)
    \/ FileRead(t)
    \/ Respond(t, {None})
    \/ SendFail(t)
    \/ DrainOk(t)
    \/ DrainFail(t)
    \/ BlockOnReturn(t)

\* The process whose threads are scheduled fairly and whose transport ends
\* every exchange: a thread that can go on inside allow_threads does, a thread
\* that waits for the interpreter lock gets it when it is free again and
\* again, and a caller that has its result lets the interpreter switch threads.
Fairness ==
    \A t \in Threads :
        WF_vars(Progress(t)) /\ SF_vars(Return(t)) /\ WF_vars(Done(t))

SpecFair == Init /\ [][NextProcess]_vars /\ Fairness

\* The options a program may build its client with.
AllClientOptions ==
    [auth : DefaultAuths, auth_bearer : DefaultBearers, params : DefaultParams,
     headers : DefaultHeaders \cup {Some("A" :> "bad\nvalue")},
     cookie_store : {None, Some(FALSE)}, referer : {None},
     proxy : {None, Some("http://127.0.0.1:8080"), Some("not a url")},
     timeout : {None}, impersonate : {None, Some("chrome_123"), Some("netscape_4")},
     follow_redirects : {None, Some(FALSE)}, max_redirects : {None, Some(1)},
     verify : {None, Some(TRUE)},
     http1 : {None, Some(TRUE), Some(FALSE)}, http2 : {None, Some(TRUE), Some(FALSE)}]

\* The program that builds its client with any of the options and then makes
\* plain calls with it.
NextNew ==
    \/ New(AllClientOptions)
    \/ ThreadNext("t1", PlainCallArgs, {None})

SpecNew == Init /\ [][NextNew]_vars

\* The program whose servers answer with any of the Content-Type values.
NextCharset ==
    \/ New(ThreadClientOptions)
    \/ ThreadNext("t1", PlainCallArgs, ResponseContentTypes)

SpecCharset == Init /\ [][NextCharset]_vars

(***************************************************************************)
(* The properties.  The errors are named as the specification names them:  *)
(* a ValidationError is the error of an unrecognized method, of two auth   *)
(* mechanisms or of a malformed header; an EncodingError is the error of   *)
(* a file that cannot be read, and names the path.                         *)
(***************************************************************************)
Returned(t) == pc[t] = "returned"

Res(t) == Unwrap(result[t])

ValidationError(r) == ~r.ok /\ r \in {ErrMethod, ErrBothAuth, ErrHeaderName, ErrHeaderValue}

EncodingError(r, path) == ~r.ok /\ r = ErrReadFile(path)

TransportError(r) == ~r.ok /\ r \in {ErrRequest, ErrReadBytes}

Paths(files) == IF IsSome(files) THEN {Unwrap(files)[f] : f \in DOMAIN Unwrap(files)} ELSE {}

Unreadable(files) == Paths(files) \ ReadablePaths

BadHeaders(headers) == IsSome(headers) /\ HeaderErrors(Unwrap(headers)) # {}

BadData(data) == IsSome(data) /\ ~py_dict_to_hashmap(Unwrap(data)).ok

\* C1: whenever a call has handed a request to the transport and its method
\* string is one of the seven methods, the request carries that method; a call
\* with any other method string returns a ValidationError, has read no file and
\* has handed nothing to the transport.
C1_MethodValidated ==
    \A t \in Threads :
        /\ (IsSome(wire[t]) /\ args[t].method \in ValidMethods)
              => Unwrap(wire[t]).method = args[t].method
        /\ (pc[t] # "idle" /\ args[t].method \notin ValidMethods)
              => /\ reads[t] = {}
                 /\ wire[t] = None
                 /\ sends[t] = 0
                 /\ Returned(t) => ValidationError(Res(t))

\* C2 as stated: a call given both a basic-auth and a bearer-auth override
\* hands nothing to the transport and returns a ValidationError, whatever its
\* method, headers, body variants and files are.  It is stated here for the
\* calls whose data map converts, so that what refutes it is not the panic of
\* lib.rs:265.
C2_BothAuthValidationError ==
    \A t \in Threads :
        (IsSome(args[t].auth) /\ IsSome(args[t].auth_bearer) /\ ~BadData(args[t].data))
            => /\ wire[t] = None
               /\ Returned(t) => ValidationError(Res(t))

\* The step of the call that fails before the auth is looked at, if any.
FailsBeforeAuth(a) ==
    \/ BadData(a.data)
    \/ a.method \notin ValidMethods
    \/ BadHeaders(a.headers)
    \/ IsPostPutPatch(a.method) /\ Unreadable(a.files) # {}

\* C2 as amended: a call given both overrides never hands anything to the
\* transport and always fails; it fails with the ValidationError of the two
\* mechanisms exactly when no earlier step fails, and else with the error of
\* the earlier step: the panic of an unconvertible data map, the
\* ValidationError of the method or of a header, or the EncodingError of an
\* unreadable file of a POST, PUT or PATCH.
C2_BothAuthAlwaysFails ==
    \A t \in Threads :
        (IsSome(args[t].auth) /\ IsSome(args[t].auth_bearer))
            => /\ wire[t] = None
               /\ sends[t] = 0
               /\ Returned(t) =>
                    /\ ~Res(t).ok
                    /\ Res(t) = ErrBothAuth <=> ~FailsBeforeAuth(args[t])
                    /\ \/ ValidationError(Res(t))
                       \/ Res(t) = ErrPanic /\ BadData(args[t].data)
                       \/ /\ IsPostPutPatch(args[t].method)
                          /\ \E p \in Unreadable(args[t].files) : EncodingError(Res(t), p)

\* C2's case: a POST with both overrides and readable files has failed with the
\* ValidationError of the two mechanisms, after its file was read.
C2_Witness ==
    /\ Returned("t1")
    /\ args["t1"].method = "POST"
    /\ IsSome(args["t1"].auth) /\ IsSome(args["t1"].auth_bearer)
    /\ reads["t1"] = {"/ok"}
    /\ Res("t1") = ErrBothAuth

TheClient == Unwrap(client)

DefaultHeadersOf(t) == Unwrap(local[t].client).default_headers

C4_ParamsReplaceDefaults ==
    \A t \in Threads :
        IsSome(wire[t])
            => Unwrap(wire[t]).query =
                  IF IsSome(args[t].params) THEN args[t].params ELSE TheClient.params

\* C4's case: the client has default params, the call an empty params map, and
\* the request handed to the transport has the empty map as its query.
C4_Witness ==
    /\ IsSome(wire["t1"])
    /\ TheClient.params = Some("p" :> "1")
    /\ args["t1"].params = Some(EmptyMap)
    /\ Unwrap(wire["t1"]).query = Some(EmptyMap)

\* The same call without its body variants.
WithoutBody(a) ==
    [a EXCEPT !.content = None, !.data = None, !.json = None, !.files = None]

\* What a call of a method other than POST, PUT, PATCH that has no body variant
\* does: the error its assembly ends with, if any, and else the request it
\* hands to the transport.
BodylessErrors(a) ==
    IF a.method \notin ValidMethods THEN {ErrMethod}
    ELSE IF BadHeaders(a.headers) THEN HeaderErrors(Unwrap(a.headers))
    ELSE IF AuthConflict(OptionOr(a.auth, TheClient.auth),
                         OptionOr(a.auth_bearer, TheClient.auth_bearer))
        THEN {ErrBothAuth}
    ELSE {}

BodylessRequest(a) ==
    TransportRequest(TheClient.client,
        ApplyTimeout(
            ApplyAuth(
                ApplyHeaders(
                    ApplyParams(NewRequestBuilder(a.method, a.url),
                                OptionOr(a.params, TheClient.params)),
                    a.headers),
                OptionOr(a.auth, TheClient.auth),
                OptionOr(a.auth_bearer, TheClient.auth_bearer)),
            a.timeout))

\* C5: a call of a method other than POST, PUT, PATCH reads no file, and ends as
\* the same call without body variants ends: with the same assembly error and
\* nothing handed to the transport, or with the same request handed to the
\* transport and the result of that exchange.
C5_BodyIgnored ==
    \A t \in Threads :
        (pc[t] # "idle" /\ ~IsPostPutPatch(args[t].method))
            => LET a == WithoutBody(args[t])
               IN /\ reads[t] = {}
                  /\ IsSome(wire[t]) =>
                        BodylessErrors(a) = {} /\ Unwrap(wire[t]) = BodylessRequest(a)
                  /\ Returned(t) =>
                        IF BodylessErrors(a) # {}
                        THEN Res(t) \in BodylessErrors(a) /\ wire[t] = None
                        ELSE IsSome(wire[t]) /\ (Res(t).ok \/ TransportError(Res(t)))

\* C6 as stated: a POST, PUT or PATCH whose files map has a path that cannot
\* be read hands nothing to the transport and returns the EncodingError that
\* names such a path.  It is stated here for the calls whose data map converts,
\* so that what refutes it is not the panic of lib.rs:265.
C6_UnreadableFileEncodingError ==
    \A t \in Threads :
        (IsPostPutPatch(args[t].method) /\ Unreadable(args[t].files) # {}
           /\ ~BadData(args[t].data))
            => /\ wire[t] = None
               /\ Returned(t) =>
                     \E p \in Unreadable(args[t].files) : EncodingError(Res(t), p)

\* C6 as amended: a POST, PUT or PATCH whose files map has a path that cannot
\* be read never hands a request to the transport and always fails: with the
\* EncodingError that names such a path when the call gets to its files, and
\* with the error of the earlier step when one fails first, the panic of an
\* unconvertible data map or the ValidationError of a malformed header.
C6_UnreadableFileNeverSent ==
    \A t \in Threads :
        (IsPostPutPatch(args[t].method) /\ Unreadable(args[t].files) # {})
            => /\ wire[t] = None
               /\ sends[t] = 0
               /\ reads[t] \subseteq Paths(args[t].files)
               /\ Cardinality(reads[t] \ ReadablePaths) <= 1
               /\ Returned(t) =>
                     IF BadData(args[t].data) THEN Res(t) = ErrPanic /\ reads[t] = {}
                     ELSE IF BadHeaders(args[t].headers)
                         THEN Res(t) \in HeaderErrors(Unwrap(args[t].headers))
                              /\ reads[t] = {}
                     ELSE \E p \in Unreadable(args[t].files) \cap reads[t] :
                              EncodingError(Res(t), p)

\* C6's case: a POST with a readable and an unreadable file has read both and
\* failed with the EncodingError that names the unreadable one.
C6_Witness ==
    /\ Returned("t1")
    /\ args["t1"].method = "POST"
    /\ reads["t1"] = {"/ok", "/missing"}
    /\ wire["t1"] = None
    /\ Res("t1") = ErrReadFile("/missing")

\* C7: each caller gets the result of its own exchange: a response has the URL
\* and the body of the caller's own request, an error is one of the caller's
\* own call; and a thread whose exchange has ended is not kept waiting by the
\* exchange of another thread: block_on can return to it at once, and the call
\* returns as soon as the interpreter lock is free.
C7_OwnResultNotBlocked ==
    \A t \in Threads :
        /\ Returned(t) =>
              /\ Res(t).ok =>
                    /\ Res(t).url = args[t].url
                    /\ Res(t).content = <<"body of", args[t].url>>
                    /\ IsSome(wire[t]) /\ Unwrap(wire[t]).url = args[t].url
              /\ (~Res(t).ok /\ Res(t).msg = "Error reading file") =>
                    Res(t).path \in Paths(args[t].files)
              /\ Res(t) = ErrPanic => BadData(args[t].data)
              /\ TransportError(Res(t)) => sends[t] = 1
        /\ pc[t] = "ready" => ENABLED BlockOnReturn(t)
        /\ (pc[t] = "reacquire" /\ gil = Free) => ENABLED Return(t)

\* C7's case: two calls are in progress on the runtime; the one for /fast has
\* returned its own response while the exchange for /slow is still awaited.
C7_Witness ==
    /\ Returned("t1")
    /\ Res("t1").ok /\ Res("t1").url = "/fast"
    /\ args["t2"].url = "/slow"
    /\ pc["t2"] \in {"send", "drain"}

\* C8: a thread holds the interpreter lock only before allow_threads and after
\* it: a thread that is in block_on, that waits for a file read, the send or
\* the body, or that waits to take the lock again, does not hold it; when it
\* has the lock again the call has its result.
Blocked == InBlockOn \cup {"runtime", "init", "ready", "reacquire"}

C8_LockReleasedWhileBlocked ==
    \A t \in Threads :
        /\ pc[t] \in Blocked => gil # t
        /\ gil = t => pc[t] \in {"prepared", "returned"}
        /\ (gil = t /\ pc[t] = "returned") => IsSome(result[t])

\* C8's case: a thread waits for its exchange while the other thread holds the
\* interpreter lock and runs.
C8_Witness ==
    /\ pc["t1"] = "send"
    /\ gil = "t2"
    /\ pc["t2"] = "prepared"

AssemblyError(r) ==
    ~r.ok /\ (ValidationError(r) \/ r = ErrPanic \/ r.msg = "Error reading file")

\* C9: a call invokes the transport's send at most once; a call that has
\* returned invoked it once unless its assembly or encoding failed, and then
\* not at all; a failed send or a failed body read is not followed by another.
C9_OneAttempt ==
    \A t \in Threads :
        /\ sends[t] <= 1
        /\ IsSome(wire[t]) <=> sends[t] = 1
        /\ pc[t] \in {"send", "drain"} => sends[t] = 1
        /\ Returned(t) =>
              /\ AssemblyError(Res(t)) => sends[t] = 0
              /\ (Res(t).ok \/ TransportError(Res(t))) => sends[t] = 1

\* C9's case: the send of a call failed and the call has returned the error,
\* after one attempt.
C9_Witness ==
    /\ Returned("t1")
    /\ Res("t1") = ErrRequest
    /\ sends["t1"] = 1

\* The client Client::new returned.
BuiltClient ==
    LET r == Unwrap(new_result)
    IN [client |-> r.client, auth |-> r.auth, auth_bearer |-> r.auth_bearer,
        params |-> r.params]

\* C10: the client stays as Client::new built it, whatever calls were made and
\* however they ended, and every call resolves its auth, its bearer token, its
\* params and its transport handle against the client as built.
C10_ClientUnchanged ==
    /\ IsSome(client) => Unwrap(new_result).ok /\ TheClient = BuiltClient
    /\ \A t \in Threads :
          pc[t] \in {"prepared"} \cup Blocked =>
              /\ local[t].client = Some(BuiltClient.client)
              /\ local[t].auth = OptionOr(args[t].auth, BuiltClient.auth)
              /\ local[t].auth_bearer = OptionOr(args[t].auth_bearer, BuiltClient.auth_bearer)
              /\ local[t].params = OptionOr(args[t].params, BuiltClient.params)

\* C10's case: an earlier call got as far as the runtime, and a later call has
\* resolved the client's default auth and params.
C10_Witness ==
    /\ RUNTIME.built = 1
    /\ pc["t1"] = "prepared"
    /\ args["t1"].auth = None /\ args["t1"].params = None
    /\ IsSome(local["t1"].auth) /\ IsSome(local["t1"].params)

(***************************************************************************)
(* C11.  Client::new fails with a ConfigError, and the program has no      *)
(* client, whenever both auth and auth_bearer are given, whatever the      *)
(* other options are; it also fails, with no client, when http1 and http2  *)
(* are both true, when a header name or value is invalid, when the proxy   *)
(* URL is malformed, and when the impersonation profile is unknown.        *)
(***************************************************************************)
ConfigError(r) == ~r.ok /\ r.exc = "ValueError"

BadOptions(o) ==
    \/ IsSome(o.auth) /\ IsSome(o.auth_bearer)
    \/ o.http1 = Some(TRUE) /\ o.http2 = Some(TRUE)
    \/ BadHeaders(o.headers)
    \/ o.proxy = Some("not a url")
    \/ o.impersonate = Some("netscape_4")

C11_ConstructionFails ==
    IsSome(new_args) =>
        LET o == Unwrap(new_args)
            r == Unwrap(new_result)
        IN /\ IsSome(o.auth) /\ IsSome(o.auth_bearer) => r = ErrBothAuth
           /\ BadOptions(o) => ConfigError(r) /\ client = None
           /\ ~r.ok => client = None
           /\ \A t \in Threads : client = None => pc[t] = "idle"

\* Client::new has refused two HTTP versions given with options that are
\* otherwise valid.
C11_Witness ==
    /\ IsSome(new_args)
    /\ Unwrap(new_args).http1 = Some(TRUE)
    /\ Unwrap(new_args).http2 = Some(TRUE)
    /\ IsSome(Unwrap(new_args).proxy)
    /\ ~IsSome(Unwrap(new_args).auth)
    /\ new_result = Some(ErrHttpVersions)
    /\ client = None

(***************************************************************************)
(* C12.  The encoding of a response is the value of the first parameter    *)
(* of its Content-Type header whose key is "charset" in any case, and is   *)
(* "UTF-8" when the response has no Content-Type header, when the header   *)
(* has no charset parameter, and when the header cannot be read as text:   *)
(* "text/html; charset=ISO-8859-1" gives "ISO-8859-1", "text/html" gives   *)
(* "UTF-8".  The value is given as it stands in the header.                *)
(***************************************************************************)
\* The Content-Type the server answered the call of t with.
ContentTypeOf(t) ==
    LET raw == Unwrap(local[t].raw)
    IN IF "content-type" \in DOMAIN raw.headers
       THEN Some(raw.headers["content-type"]) ELSE None

\* The charset the claim gives to each Content-Type.
ExpectedCharset(content_type) ==
    CASE content_type = None -> Utf8
      [] content_type = Some(TextHtmlLatin1) ->
            <<"I", "S", "O", "-", "8", "8", "5", "9", "-", "1">>
      [] content_type = Some(TextHtml) -> Utf8
      [] content_type = Some(UpperCaseKey) -> <<"b", "i", "g", "5">>
      [] content_type = Some(TwoCharsets) -> <<"x">>
      [] content_type = Some(NotText) -> Utf8
      [] content_type = Some(KeyOnly) -> Utf8
      [] content_type = Some(OtherKey) -> Utf8
      [] content_type = Some(EmptyValue) -> << >>

C12_CharsetOfContentType ==
    \A t \in Threads :
        Returned(t) /\ Res(t).ok =>
            Res(t).encoding = ExpectedCharset(ContentTypeOf(t))

\* A response whose charset key is in upper case, with spaces around the '='.
C12_Witness ==
    /\ Returned("t1")
    /\ Res("t1").ok
    /\ ContentTypeOf("t1") = Some(UpperCaseKey)
    /\ Res("t1").encoding = <<"b", "i", "g", "5">>

(***************************************************************************)
(* C13.  When a POST, PUT or PATCH call is given more than one body        *)
(* variant, the request sent carries the body of the last variant given,   *)
(* in the order content, data, json, files, and one Content-Type value:    *)
(* that of this last variant.                                              *)
(***************************************************************************)
\* The body variants a call was given, in the order the code applies them.
Variants(a) ==
    SelectSeq(<<"content", "data", "json", "files">>,
              LAMBDA v : IsSome(a[v]))

LastVariant(a) == Variants(a)[Len(Variants(a))]

\* The body and the content type of a variant of the call of t.
VariantBody(t, v) ==
    CASE v = "content" -> Some(BytesBody(Unwrap(args[t].content)))
      [] v = "data" -> local[t].data_str
      [] v = "json" -> Some(PyStrBody(Unwrap(args[t].json)))
      [] v = "files" -> Some(MultipartBody(local[t].form))

VariantContentType(v) ==
    CASE v = "data" -> "application/x-www-form-urlencoded"
      [] v = "json" -> "application/json"
      [] v = "files" -> "multipart/form-data"

C13_LastVariantOnly ==
    \A t \in Threads :
        (/\ IsSome(wire[t])
         /\ IsPostPutPatch(args[t].method)
         /\ Len(Variants(args[t])) > 1)
        => LET sent == Unwrap(wire[t])
               last == LastVariant(args[t])
           IN /\ sent.body = VariantBody(t, last)
              /\ "Content-Type" \in DOMAIN sent.headers
              /\ sent.headers["Content-Type"] = <<VariantContentType(last)>>

(***************************************************************************)
(* C14.  A call made with a client that has a default auth, basic or       *)
(* bearer, and that is given one auth of either kind is not refused for    *)
(* its auth and the request it sends carries the mechanism of the call,    *)
(* nothing of the default; a call given none sends the client's default.   *)
(***************************************************************************)
\* The mechanism the arguments name, for arguments that name one.
Mechanism(auth, auth_bearer) ==
    IF IsSome(auth) THEN Some(BasicAuth(Unwrap(auth)))
    ELSE Some(BearerAuth(Unwrap(auth_bearer)))

ExactlyOne(auth, auth_bearer) == IsSome(auth) # IsSome(auth_bearer)

C14_CallAuthReplacesDefault ==
    \A t \in Threads :
        (/\ IsSome(client)
         /\ ExactlyOne(TheClient.auth, TheClient.auth_bearer))
        => LET a == args[t]
           IN /\ ExactlyOne(a.auth, a.auth_bearer) =>
                    /\ IsSome(out[t]) => Unwrap(out[t]) # ErrBothAuth
                    /\ IsSome(wire[t]) =>
                           Unwrap(wire[t]).auth = Mechanism(a.auth, a.auth_bearer)
              /\ ~IsSome(a.auth) /\ ~IsSome(a.auth_bearer) =>
                    /\ IsSome(out[t]) => Unwrap(out[t]) # ErrBothAuth
                    /\ IsSome(wire[t]) =>
                           Unwrap(wire[t]).auth =
                              Mechanism(TheClient.auth, TheClient.auth_bearer)

(***************************************************************************)
(* C15.  The process has at most one runtime in every state: the first     *)
(* call builds it, one call only when several threads make their first     *)
(* call at the same time, and every call that blocks, made with the        *)
(* client or by a module-level function, blocks on that one runtime.       *)
(***************************************************************************)
C15_OneRuntime ==
    /\ RUNTIME.built <= 1
    /\ RUNTIME.once = "complete" <=> RUNTIME.built = 1
    /\ RUNTIME.once = "complete" <=> IsSome(RUNTIME.value)
    /\ Cardinality({t \in Threads : pc[t] = "init"}) <= 1
    /\ \A t \in Threads :
          pc[t] \in InBlockOn \cup {"ready"} =>
              /\ IsSome(local[t].runtime)
              /\ local[t].runtime = RUNTIME.value

\* C15's case: a call of the module-level function with a profile and a call
\* with the client of the program are both in block_on, on the same runtime.
C15_Witness ==
    /\ pc["t1"] \in InBlockOn /\ pc["t2"] \in InBlockOn
    /\ local["t1"].runtime = Some(1) /\ local["t2"].runtime = Some(1)
    /\ Unwrap(local["t1"].client).impersonate = Some("chrome_123")
    /\ IsSome(client)
    /\ TheClient.client.default_headers = ("A" :> "1")
    /\ local["t2"].client = Some(TheClient.client)

(***************************************************************************)
(* C16.  With a transport that ends every exchange and threads that are    *)
(* scheduled fairly, every call that a thread has issued returns to its    *)
(* caller, with a response or an error; so does a call that is in flight   *)
(* when the thread that drives the runtime ends its own call.              *)
(***************************************************************************)
C16_EveryCallReturns ==
    \A t \in Threads : (pc[t] # "idle") ~> (Returned(t) /\ IsSome(result[t]))

\* C16's case: the thread that drove the runtime has left block_on and given
\* the core up while the request of the other thread, which never had the
\* core, is with the transport.
C16_Witness ==
    /\ pc["t1"] = "reacquire"
    /\ core = Free
    /\ pc["t2"] = "send"
    /\ IsSome(wire["t2"])

====
